---- MODULE Spec2Model ----
(***************************************************************************)
(* epub2json: the `convert` command of index.js.                           *)
(*                                                                         *)
(* One step of the model is one turn of the Node event loop: a callback    *)
(* delivered by the runtime (the command action, the glob result, an       *)
(* archive's 'end' or 'error' event, a chapter callback, a write callback) *)
(* together with every promise reaction it triggers before the next        *)
(* callback can run.                                                       *)
(***************************************************************************)
EXTENDS Integers, Sequences, FiniteSets, TLC

(* ------------------------------ bounds --------------------------------- *)

\* Directories of up to MaxSmall archives are explored with every kind of archive.
MaxSmall == 2
\* Longest reading order (epub.flow) of an archive.
MaxChapters == 2
\* A large directory holds one full group plus Extra more archives.
Extra == 1
\* Longest discovered list the chunk loop is run over on its own.
MaxCount == 45

(* -------------------------- program constants -------------------------- *)

\* const chunkSize = 10;
chunkSize == 10

(* ----------------------------- the inputs ------------------------------ *)

\* What fs reports about a path given on the command line.  kind "empty" is an
\* absent or empty option value; "link" is a symbolic link (lstat does not
\* follow it, so isDirectory() is false even when it points at a directory).
PathKinds == {"empty", "absent", "file", "link", "dir"}
Access == {"R", "W", "X"}
PathStates ==
  [kind : PathKinds \ {"dir"}, perms : {{}}] \cup [kind : {"dir"}, perms : SUBSET Access]

\* epub.flow of an archive with k chapters: ids in declared reading order.
\* The ids are deliberately not in sorted order.
FlowOf(k) == [i \in 1..k |-> k + 1 - i]

\* One archive of the input directory, as the reader and the file system
\* will treat it:
\*   open    "ok": the reader emits 'end';  "errSync": it emits 'error' from
\*           inside parse();  "errAsync": it emits 'error' from a later callback
\*   flow    the declared reading order
\*   badAt   the position in flow whose getChapter reports an error (0: none)
\*   writeOk whether fs.writeFile of its output file succeeds
\*   meta    the metadata fields the archive carries
Fields == {"creator", "title", "language", "subject", "date", "description"}
Archive(o, k, b, w) ==
  [open |-> o, flow |-> FlowOf(k), badAt |-> b, writeOk |-> w, meta |-> Fields]
Plain == Archive("ok", 0, 0, TRUE)
ArchiveKinds ==
  {Archive("errSync", 0, 0, TRUE), Archive("errAsync", 0, 0, TRUE)}
    \cup {Archive("ok", k, 0, TRUE) : k \in 0..MaxChapters}
    \cup {Archive("ok", 0, 0, FALSE)}
    \cup UNION {{Archive("ok", k, b, TRUE) : b \in 1..k} : k \in 1..MaxChapters}
\* The kinds the one special archive of a large directory may have.
BigKinds ==
  {Plain, Archive("ok", 0, 0, FALSE), Archive("ok", 1, 1, TRUE),
   Archive("errSync", 0, 0, TRUE), Archive("errAsync", 0, 0, TRUE)}

SmallDirs == UNION {[1..n -> ArchiveKinds] : n \in 0..MaxSmall}
\* A large directory: plain archives, but for its first archive, which is of
\* any of BigKinds, or for its last archive, which has an unreadable chapter.
BigDirs ==
  {[p \in 1..(chunkSize + Extra) |-> IF p = 1 THEN a ELSE Plain] : a \in BigKinds}
    \cup {[p \in 1..(chunkSize + Extra) |->
             IF p = chunkSize + Extra THEN Archive("ok", 1, 1, TRUE) ELSE Plain]}
TinyDirs == {d \in SmallDirs : Len(d) <= 1}
\* One valid archive that lacks some of the metadata fields.
MetaDirs == {<<[Plain EXCEPT !.meta = m]>> : m \in (SUBSET Fields) \ {Fields}}

GoodIn == [kind |-> "dir", perms |-> {"R", "X"}]
GoodOut == [kind |-> "dir", perms |-> {"W"}]

VARIABLES
  inputPath,   \* cmd.inputPath as the file system sees it
  outputPath,  \* cmd.outputPath as the file system sees it
  dir,         \* the *.epub files of the input directory, in glob order
  pc,          \* where convertAction and its async glob callback stand
  alive,       \* FALSE once the process has exited or died
  stderr,      \* the fatal message printed by convertAction, or "none"
  spinner,     \* "off", "spinning", "stopped"
  chunk,       \* the loop variable of the chunk loop
  progress,    \* the values given to spinner.text, in order
  st,          \* per path: the state of parseEpub's promise
  chap,        \* per path: the state of each chapter request
  book,        \* per path: the book object of parseEpub
  wr,          \* per path: the state of fs.writeFile
  files,       \* the output directory: file name -> content
  diag,        \* paths whose error was printed by log(err)
  notice       \* per path: the lines printed by writeJSON's callback

vars ==
  <<inputPath, outputPath, dir, pc, alive, stderr, spinner, chunk, progress,
    st, chap, book, wr, files, diag, notice>>

Paths == 1..Len(dir)

(* --------------------------- pure functions ---------------------------- *)

\* fs.accessSync(testPath, mode) does not throw
accessSync(testPath, mode) == mode \subseteq testPath.perms

\* validPath without its accessSync step
validPathNoAccess(testPath, mode) ==
  testPath.kind = "dir"

\* validPath(testPath, mode)
validPath(testPath, mode) ==
  LET ok1 == testPath.kind \notin {"empty", "absent"}       \* fs.existsSync
      ok2 == IF ok1 THEN testPath.kind = "dir" ELSE ok1     \* lstat.isDirectory()
  IN  IF ok2 THEN accessSync(testPath, mode) ELSE ok2

validInput(p) == validPath(p, {"R", "X"})
validOutput(p) == validPath(p, {"W"})

\* Math.floor in place of Math.ceil
chunksFloor(n) == n \div chunkSize

\* a quotient that is always rounded up by one
chunksUp(n) == n \div chunkSize + 1

\* Math.ceil(paths.length / chunkSize)
chunks(n) == IF n % chunkSize = 0 THEN n \div chunkSize ELSE n \div chunkSize + 1

\* a slice one path too long: paths.slice(index, index + chunkSize + 1)
SliceWide(c, n) == {p \in 1..n : c * chunkSize < p /\ p <= c * chunkSize + chunkSize + 1}

\* paths.slice(index, index + chunkSize) with index = c * chunkSize
\* (paths are numbered from 1 here, array indices from 0 in the code)
Slice(c, n) == {p \in 1..n : c * chunkSize < p /\ p <= c * chunkSize + chunkSize}

\* path.basename(ePubPath): the name of the p-th file of the directory, as its
\* dot-separated parts.  The glob matches *.epub in one directory, so the
\* names are distinct and end in "epub"; every second one has a dot more
\* ("1.epub", "1.x.epub", "2.epub", "2.x.epub", ...).
Basename(p) ==
  IF p % 2 = 1 THEN <<(p + 1) \div 2, "epub">> ELSE <<p \div 2, "x", "epub">>

\* a name cut at its first dot: filename.split('.')[0]
pathParseNameFirst(filename) == <<filename[1]>>

\* path.parse(filename).name: the name without its last extension
pathParseName(filename) == SubSeq(filename, 1, Len(filename) - 1)

\* path.normalize(outputPath) + '/' + path.parse(book.filename).name + '.json'
OutputFile(p) == pathParseName(Basename(p)) \o <<"json">>

\* the content of a file that does not exist (no chapter id is 0)
NoFile == [chapterIds |-> <<0>>, chapters |-> <<>>]
\* let book = {filename: path.basename(ePubPath), creator: '', ...}
NewBook(p) ==
  [filename |-> Basename(p), creator |-> "", title |-> "", language |-> "",
   subject |-> "", date |-> "", description |-> "", chapterIds |-> <<>>,
   chapters |-> <<>>]

\* the text an archive holds in metadata field f
MetaValue(f) == f
\* epub.metadata.f of archive p: a field the archive lacks reads as undefined
Metadata(p, f) == IF f \in dir[p].meta THEN MetaValue(f) ELSE "undefined"

\* book.creator = epub.metadata.creator; ... book.description = ...
CopyMetadata(p, b) ==
  [g \in DOMAIN b |-> IF g \in Fields THEN Metadata(p, g) ELSE b[g]]

\* JSON.stringify(book): a key whose value is undefined is left out
JSONstringify(b) ==
  [g \in DOMAIN b \ {f \in Fields : b[f] = "undefined"} |-> b[g]]

\* the text getChapter delivers for chapter id of archive p
Text(p, id) == <<p, id>>

\* the reduce with unshift in place of push
RECURSIVE ReduceUnshift(_, _, _)
ReduceUnshift(chapters, i, b) ==
  IF i > Len(chapters) THEN b
  ELSE ReduceUnshift(chapters, i + 1,
         [b EXCEPT
            !.chapterIds = <<chapters[i].id>> \o b.chapterIds,
            !.chapters = [id \in DOMAIN b.chapters \cup {chapters[i].id} |->
                            IF id = chapters[i].id THEN chapters[i].text
                            ELSE b.chapters[id]]])

\* chapters.reduce((book, chapter) => {...}, book)
RECURSIVE Reduce(_, _, _)
Reduce(chapters, i, b) ==
  IF i > Len(chapters) THEN b
  ELSE Reduce(chapters, i + 1,
         [b EXCEPT
            !.chapterIds = Append(b.chapterIds, chapters[i].id),
            !.chapters = [id \in DOMAIN b.chapters \cup {chapters[i].id} |->
                            IF id = chapters[i].id THEN chapters[i].text
                            ELSE b.chapters[id]]])

\* The value Promise.all(textPromises) resolves with: one {id, text} per
\* element of epub.flow, in the order of textPromises.
Resolved(p) ==
  [i \in 1..Len(dir[p].flow) |-> [id |-> dir[p].flow[i], text |-> Text(p, dir[p].flow[i])]]

\* one book object shared by all archives (declared outside parseEpub): the
\* reduce goes on from the book of whichever archive was assembled before
AssembleShared(p, b) ==
  LET done == {q \in Paths : st[q] = "resolved"}
  IN  IF done = {} THEN Reduce(Resolved(p), 1, b)
      ELSE Reduce(Resolved(p), 1, book[CHOOSE q \in done : TRUE])

\* Promise.all(textPromises).then(chapters => resolve(chapters.reduce(...)))
\* for archive p, whose book object is b
Assemble(p, b) == Reduce(Resolved(p), 1, b)

(* ------------------------------- Init ---------------------------------- *)

\* Every file-system situation is explored with directories of at most one
\* archive; every directory with one pair of valid paths.
Inputs ==
  (PathStates \X PathStates \X TinyDirs)
    \cup ({GoodIn} \X {GoodOut} \X (SmallDirs \cup BigDirs \cup MetaDirs))

Init ==
  /\ \E in \in Inputs :
       /\ inputPath = in[1]
       /\ outputPath = in[2]
       /\ dir = in[3]
       \* only a directory (or a link to one) has files in it
       /\ in[1].kind \notin {"dir", "link"} => in[3] = <<>>
  /\ pc = "start"
  /\ alive = TRUE
  /\ stderr = "none"
  /\ spinner = "off"
  /\ chunk = 0
  /\ progress = <<>>
  /\ st = [p \in Paths |-> "unopened"]
  /\ chap = [p \in Paths |-> <<>>]
  /\ book = [p \in Paths |-> NewBook(p)]
  /\ wr = [p \in Paths |-> "none"]
  /\ files = [f \in {OutputFile(p) : p \in Paths} |-> NoFile]
  /\ diag = {}
  /\ notice = [p \in Paths |-> {}]

(* ------------------------ promises and the loop ------------------------ *)

\* parseEpub(path) for every path of chunk c: new EPub, epub.on('end'), and
\* epub.parse().  An 'error' emitted inside parse() has no listener, so emit
\* throws inside the promise executor and the promise is rejected at once.
SyncFailed(c) == {p \in Slice(c, Len(dir)) : dir[p].open = "errSync"}
bookPromises(s, c) ==
  [p \in Paths |->
     IF p \in Slice(c, Len(dir))
     THEN (IF p \in SyncFailed(c) THEN "rejected" ELSE "opening")
     ELSE s[p]]

\* Array.prototype.slice(start, end) of a sequence: the elements at the
\* 0-based indices start .. end-1, both clamped to the length
ArraySlice(a, start, end) ==
  LET lo == IF start < Len(a) THEN start ELSE Len(a)
      hi == IF end < Len(a) THEN end ELSE Len(a)
  IN  [i \in 1..(hi - lo) |-> a[lo + i]]

\* the discovered list handed to the glob callback
paths == [p \in Paths |-> p]

\* a slice that starts one path late: paths.slice(index + 1, index + chunkSize)
PathsSliceLate(c) ==
  ArraySlice(paths, c * chunkSize + 1, c * chunkSize + chunkSize)

\* paths.slice(index, index + chunkSize) of loop index c, as a list
PathsSlice(c) == ArraySlice(paths, c * chunkSize, c * chunkSize + chunkSize)

\* The async glob callback is not awaited and has no catch: when the await
\* throws, its promise is rejected with no handler.  The runtime then either
\* only warns (the process lives on) or raises (the process dies).
Unhandled == BOOLEAN

\* Promise.all(promises) of a chunk, given the task states s
AllRejected(s, c) == \E p \in Slice(c, Len(dir)) : s[p] = "rejected"
AllFulfilled(s, c) == \A p \in Slice(c, Len(dir)) : s[p] = "resolved"

\* The chunk loop from `chunk < chunks` of iteration c up to its next await,
\* with task states s, printed errors d and progress pr.
Loop(c, s, d, pr) ==
  IF c < chunks(Len(dir))
  THEN /\ chunk' = c
       /\ progress' = pr
       /\ spinner' = spinner
       /\ st' = bookPromises(s, c)
       /\ IF AllRejected(bookPromises(s, c), c)
          THEN /\ diag' = d \cup SyncFailed(c)
               /\ pc' = "aborted"
               /\ alive' \in Unhandled
          ELSE /\ diag' = d
               /\ pc' = "await"
               /\ alive' = alive
  ELSE /\ chunk' = c
       /\ progress' = pr
       /\ spinner' = "stopped"
       /\ st' = s
       /\ diag' = d
       /\ pc' = "done"
       /\ alive' = alive

\* The reactions to a change of the task states to s (errors printed: d):
\* the awaited Promise.all of the current chunk rejects on its first
\* rejection, and fulfils when its last promise does.
Settle(s, d) ==
  IF pc = "await" /\ AllRejected(s, chunk)
  THEN /\ st' = s
       /\ diag' = d
       /\ pc' = "aborted"
       /\ alive' \in Unhandled
       /\ UNCHANGED <<chunk, progress, spinner>>
  ELSE IF pc = "await" /\ AllFulfilled(s, chunk)
  THEN Loop(chunk + 1, s, d, Append(progress, chunk))
  ELSE /\ st' = s
       /\ diag' = d
       /\ UNCHANGED <<pc, alive, chunk, progress, spinner>>

\* Promise.race in place of Promise.all: fulfilled by the first chapter
JoinedRace(c) == \E i \in DOMAIN c : c[i] = "ok"

\* Promise.all(textPromises) is fulfilled
Joined(c) == \A i \in DOMAIN c : c[i] = "ok"

\* resolve(book) of parseEpub, then bookPromise.then: writeJSON starts the write
\* (b: the book object of archive p as the 'end' handler has filled it)
Fulfil(p, b) ==
  /\ book' = [book EXCEPT ![p] = Assemble(p, b)]
  /\ wr' = [wr EXCEPT ![p] = "pending"]
  /\ Settle([st EXCEPT ![p] = "resolved"], diag)

(* ------------------------------ actions -------------------------------- *)

\* convertAction up to the call of globby
convertAction ==
  /\ pc = "start"
  /\ alive
  /\ LET msg == IF inputPath.kind = "empty" THEN "Missing input path"
                ELSE IF outputPath.kind = "empty" THEN "Missing output path"
                ELSE IF ~validInput(inputPath) THEN "No such input path"
                ELSE IF ~validOutput(outputPath) THEN "No such output path"
                ELSE "none"
     IN  /\ stderr' = msg
         /\ IF msg # "none"
            THEN /\ pc' = "exit"      \* process.exit(1)
                 /\ alive' = FALSE
                 /\ spinner' = spinner
            ELSE /\ pc' = "glob"
                 /\ alive' = alive
                 /\ spinner' = "spinning"
  /\ UNCHANGED <<inputPath, outputPath, dir, chunk, progress, st, chap, book, wr,
                 files, diag, notice>>

\* the glob result arrives: the async callback runs up to its first await
Discovered ==
  /\ pc = "glob"
  /\ alive
  /\ Loop(0, st, diag, progress)
  /\ UNCHANGED <<inputPath, outputPath, dir, stderr, chap, book, wr, files, notice>>

\* epub.on('end', ...) of archive p
OpenEnd(p) ==
  /\ alive
  /\ st[p] = "opening"
  /\ dir[p].open = "ok"
  /\ LET c == [i \in 1..Len(dir[p].flow) |-> "pending"]   \* textPromises
     IN  /\ chap' = [chap EXCEPT ![p] = c]
         /\ IF Joined(c)
            THEN Fulfil(p, CopyMetadata(p, book[p]))
            ELSE /\ st' = [st EXCEPT ![p] = "reading"]
                 /\ book' = [book EXCEPT ![p] = CopyMetadata(p, book[p])]
                 /\ UNCHANGED <<pc, alive, spinner, chunk, progress, wr, diag>>
  /\ UNCHANGED <<inputPath, outputPath, dir, stderr, files, notice>>

\* archive p emits 'error' from a callback: no listener, uncaught exception
OpenError(p) ==
  /\ alive
  /\ st[p] = "opening"
  /\ dir[p].open = "errAsync"
  /\ alive' = FALSE
  /\ UNCHANGED <<inputPath, outputPath, dir, pc, stderr, spinner, chunk, progress,
                 st, chap, book, wr, files, diag, notice>>

\* the callback of epub.getChapter for position i of archive p's flow
Chapter(p, i) ==
  /\ alive
  /\ i \in DOMAIN chap[p]
  /\ chap[p][i] = "pending"
  /\ LET r == IF dir[p].badAt = i THEN "fail" ELSE "ok"
         c == [chap[p] EXCEPT ![i] = r]
     IN  /\ chap' = [chap EXCEPT ![p] = c]
         /\ IF st[p] = "reading" /\ r = "fail"
            THEN /\ Settle([st EXCEPT ![p] = "rejected"], diag \cup {p})
                 /\ UNCHANGED <<book, wr>>
            ELSE IF st[p] = "reading" /\ Joined(c)
            THEN Fulfil(p, book[p])
            ELSE UNCHANGED <<pc, alive, spinner, chunk, progress, st, book, wr, diag>>
  /\ UNCHANGED <<inputPath, outputPath, dir, stderr, files, notice>>

\* a write callback that throws its error instead of printing it
WrittenThrows(p) ==
  /\ alive
  /\ wr[p] = "pending"
  /\ IF dir[p].writeOk
     THEN /\ wr' = [wr EXCEPT ![p] = "ok"]
          /\ files' = [files EXCEPT ![OutputFile(p)] = JSONstringify(book[p])]
          /\ notice' = [notice EXCEPT ![p] = {"Output"}]
          /\ alive' = alive
     ELSE /\ wr' = [wr EXCEPT ![p] = "fail"]
          /\ files' = files
          /\ notice' = [notice EXCEPT ![p] = {"Output"}]
          /\ alive' = FALSE
  /\ UNCHANGED <<inputPath, outputPath, dir, pc, stderr, spinner, chunk,
                 progress, st, chap, book, diag>>

\* the callback of fs.writeFile for the book of archive p
Written(p) ==
  /\ alive
  /\ wr[p] = "pending"
  /\ IF dir[p].writeOk
     THEN /\ wr' = [wr EXCEPT ![p] = "ok"]
          /\ files' = [files EXCEPT ![OutputFile(p)] = JSONstringify(book[p])]
          /\ notice' = [notice EXCEPT ![p] = {"Output"}]
     ELSE /\ wr' = [wr EXCEPT ![p] = "fail"]
          /\ files' = files
          /\ notice' = [notice EXCEPT ![p] = {"Output", "Unable"}]
  /\ UNCHANGED <<inputPath, outputPath, dir, pc, alive, stderr, spinner, chunk,
                 progress, st, chap, book, diag>>

Next ==
  \/ convertAction
  \/ Discovered
  \/ \E p \in Paths : OpenEnd(p)
  \/ \E p \in Paths : OpenError(p)
  \/ \E p \in Paths : \E i \in 1..MaxChapters : Chapter(p, i)
  \/ \E p \in Paths : Written(p)

Spec == Init /\ [][Next]_vars

(* ------------------------ the chunk loop alone -------------------------- *)

\* The loop of the glob callback over a list of up to MaxCount valid
\* archives, one iteration per step, with the promises of the slice all
\* fulfilled by the time they are awaited.
LoopInit ==
  /\ inputPath = GoodIn
  /\ outputPath = GoodOut
  /\ dir \in {[p \in 1..n |-> Plain] : n \in 0..MaxCount}
  /\ pc = "glob"
  /\ alive = TRUE
  /\ stderr = "none"
  /\ spinner = "on"
  /\ chunk = 0
  /\ progress = <<>>
  /\ st = [p \in Paths |-> "unopened"]
  /\ chap = [p \in Paths |-> <<>>]
  /\ book = [p \in Paths |-> NewBook(p)]
  /\ wr = [p \in Paths |-> "none"]
  /\ files = [f \in {OutputFile(p) : p \in Paths} |-> NoFile]
  /\ diag = {}
  /\ notice = [p \in Paths |-> {}]

\* for (let i = 0; i < chunks; i++) { slice; await; spinner.text }
LoopStep ==
  /\ chunk < chunks(Len(dir))
  /\ st' = [p \in Paths |->
              IF \E i \in DOMAIN PathsSlice(chunk) : PathsSlice(chunk)[i] = p
              THEN "resolved" ELSE st[p]]
  /\ progress' = Append(progress, chunk)
  /\ chunk' = chunk + 1
  /\ UNCHANGED <<inputPath, outputPath, dir, pc, alive, stderr, spinner,
                 chap, book, wr, files, diag, notice>>

LoopSpec == LoopInit /\ [][LoopStep]_vars

(* --------------------------- vocabulary -------------------------------- *)

\* the group (chunk index) of a path
Group(p) == (p - 1) \div chunkSize
LastGroup == chunks(Len(dir)) - 1
GroupPaths(N) == {p \in Paths : Group(p) = N}

\* no callback is outstanding: nothing more will happen in this run
Quiescent == ~ENABLED Next
\* the paths were accepted and the run went on to discovery
Started == stderr = "none" /\ pc # "start"

\* an archive the reader can open and whose every chapter can be read
Valid(p) == dir[p].open = "ok" /\ dir[p].badAt = 0
OutputExists(p) == files[OutputFile(p)] # NoFile

AssemblySettled(p) == st[p] \in {"resolved", "rejected"}
\* the assemble-then-write pipeline of one path has settled
TaskSettled(p) ==
  \/ st[p] = "rejected"
  \/ st[p] = "resolved" /\ wr[p] \in {"ok", "fail"}

\* group N has been treated as complete: its progress notification was
\* emitted, an archive of group N+1 was opened, or the end was signalled
Notified(N) == \E i \in DOMAIN progress : progress[i] = N
TreatedComplete(N) ==
  \/ Notified(N)
  \/ \E q \in GroupPaths(N + 1) : st[q] # "unopened"
  \/ N = LastGroup /\ spinner = "stopped"

(* ------------------------------- claims -------------------------------- *)

\* C1 (as claimed): whenever group N is treated as complete, every task of
\* group N (assembly and, on success, its output write) has settled.
C1_GroupBarrier ==
  \A N \in 0..LastGroup :
    TreatedComplete(N) => \A p \in GroupPaths(N) : TaskSettled(p)

\* C2 (as claimed): once the run is quiescent with the process alive, a failed
\* assembly in group N has not kept any archive of a later group from being
\* opened.
C2_LaterGroupsStart ==
  (Quiescent /\ alive) =>
    \A p \in Paths : st[p] = "rejected" =>
      \A q \in Paths : Group(q) > Group(p) => st[q] # "unopened"

\* C3 (as claimed): once the run is quiescent with the process alive (every
\* write succeeding), the output files are exactly those of the valid archives.
C3_Isolation ==
  (Quiescent /\ alive /\ Started /\ \A p \in Paths : dir[p].writeOk) =>
    {p \in Paths : OutputExists(p)} = {p \in Paths : Valid(p)}

\* C4 (as claimed): a run that passed validation and whose process is alive
\* either can still take a step or has reached its end: the last group is
\* complete, the progress indicator is stopped and control is returned.
C4_Termination ==
  (Started /\ alive) => (ENABLED Next \/ (pc = "done" /\ spinner = "stopped"))

\* C5 (as claimed): once the run is quiescent, an archive whose open was
\* answered by an error has a failed assembly and a printed diagnostic, and
\* every other archive of the directory has been processed.
C5_OpenFailureSettles ==
  Quiescent =>
    \A p \in Paths : (st[p] # "unopened" /\ dir[p].open # "ok") =>
      /\ st[p] = "rejected"
      /\ p \in diag
      /\ \A q \in Paths : AssemblySettled(q)

\* C6: a write exists (started, finished or on disk) only for an archive whose
\* every chapter request succeeded; an archive with a failed chapter request
\* has no write and no output file, whatever its other requests did.
C6_AllOrNothing ==
  \A p \in Paths :
    /\ (wr[p] # "none" \/ OutputExists(p)) =>
         /\ st[p] = "resolved"
         /\ DOMAIN chap[p] = DOMAIN dir[p].flow
         /\ \A i \in DOMAIN chap[p] : chap[p][i] = "ok"
    /\ (\E i \in DOMAIN chap[p] : chap[p][i] = "fail") =>
         /\ st[p] = "rejected"
         /\ wr[p] = "none"
         /\ ~OutputExists(p)

\* C6 witness: one chapter request failed, the others all completed
\* successfully, and nothing was written for the archive.
C6_Witness ==
  \E p \in Paths :
    /\ Len(dir[p].flow) >= 2
    /\ \E i \in DOMAIN chap[p] :
         /\ chap[p][i] = "fail"
         /\ \A j \in DOMAIN chap[p] \ {i} : chap[p][j] = "ok"
    /\ wr[p] = "none"
    /\ Quiescent

\* C7: the Book of every assembled archive lists the chapter ids of the
\* declared reading order, position by position, and maps each id to the text
\* delivered for it; the file written holds that Book.
C7_OrderPreserved ==
  \A p \in Paths :
    /\ st[p] = "resolved" =>
         /\ book[p].chapterIds = dir[p].flow
         /\ DOMAIN book[p].chapters = {dir[p].flow[i] : i \in DOMAIN dir[p].flow}
         /\ \A i \in DOMAIN dir[p].flow :
              book[p].chapters[dir[p].flow[i]] = Text(p, dir[p].flow[i])
    /\ OutputExists(p) =>
         /\ files[OutputFile(p)].chapterIds = book[p].chapterIds
         /\ files[OutputFile(p)].chapters = book[p].chapters

\* C7 witness: a Book of several chapters was assembled and written.
C7_Witness ==
  \E p \in Paths :
    /\ st[p] = "resolved"
    /\ Len(dir[p].flow) >= 2
    /\ OutputExists(p)

\* C8: when every archive is valid and every write succeeds, the finished run
\* has ended normally and left one output file per discovered archive, each
\* with as many chapters as the archive's reading order.
C8_Completeness ==
  (Quiescent /\ Started /\ \A p \in Paths : Valid(p) /\ dir[p].writeOk) =>
    /\ pc = "done"
    /\ Cardinality({f \in DOMAIN files : files[f] # NoFile}) = Len(dir)
    /\ \A p \in Paths :
         /\ OutputExists(p)
         /\ Len(files[OutputFile(p)].chapterIds) = Len(dir[p].flow)

\* C8 witness: a finished run over more than one group, every file written.
C8_Witness ==
  /\ Quiescent
  /\ Len(dir) > chunkSize
  /\ \A p \in Paths : OutputExists(p)

\* what the claim calls an unusable input or output path
BadInput == inputPath.kind # "dir" \/ ~({"R", "X"} \subseteq inputPath.perms)
BadOutput == outputPath.kind # "dir" \/ "W" \notin outputPath.perms

\* C9: with an unusable input or output path the run never gets to discovery:
\* the process exits from convertAction, no archive is ever opened and no
\* output file is ever written.
C9_ValidationGate ==
  (BadInput \/ BadOutput) =>
    /\ pc \in {"start", "exit"}
    /\ pc = "exit" => ~alive /\ stderr # "none"
    /\ spinner = "off"
    /\ \A p \in Paths : st[p] = "unopened" /\ wr[p] = "none" /\ ~OutputExists(p)

\* C9 witness: the process has exited on an unwritable output directory while
\* a readable input directory held an archive.
C9_Witness ==
  /\ pc = "exit"
  /\ ~BadInput
  /\ outputPath.kind = "dir"
  /\ Len(dir) = 1

\* a write callback that reports an error, for path p, in this step
WriteFails(p) == wr[p] = "pending" /\ wr'[p] = "fail"

C10_Diagnosed ==
  /\ \A p \in Paths : wr[p] = "fail" => "Unable" \in notice[p]
  /\ (Quiescent /\ Started /\ \A p \in Paths : Valid(p)) =>
       /\ pc = "done"
       /\ spinner = "stopped"
       /\ \A p \in Paths : st[p] = "resolved" /\ (dir[p].writeOk => OutputExists(p))

C10_Step ==
  \A p \in Paths : WriteFails(p) =>
    /\ "Unable" \in notice'[p]
    /\ alive'
    /\ UNCHANGED <<pc, spinner, chunk, progress, st, chap, book, diag, files>>
    /\ \A q \in Paths \ {p} : wr'[q] = wr[q]

\* C10: a failed write prints its diagnostic and touches nothing but its own
\* write state: the process lives on, the loop, every assembly and every other
\* write are as they were; and a run whose only failures are writes ends
\* normally with every archive assembled and every writable output written.
C10_WriteFailureLocal == []C10_Diagnosed /\ [][C10_Step]_vars

\* C10 witness: the first write of a run over two groups failed, and the run
\* ended with every other output file written.
C10_Witness ==
  /\ pc = "done"
  /\ Len(dir) > chunkSize
  /\ wr[1] = "fail"
  /\ \A q \in Paths \ {1} : OutputExists(q)

\* the archives that are open: opened, and their assembly not yet settled
OpenArchives == {p \in Paths : st[p] \in {"opening", "reading"}}

Console ==
  (IF stderr = "none" THEN {} ELSE {[kind |-> "fatal", path |-> 0, text |-> stderr]})
    \cup {[kind |-> "error", path |-> p, text |-> "err"] : p \in diag}
    \cup UNION {{[kind |-> "notice", path |-> p, text |-> t] : t \in notice[p]} : p \in Paths}
    \cup {[kind |-> "progress", path |-> progress[i], text |-> "chunk"] : i \in DOMAIN progress}
\* the run summaries among them
Summaries == {l \in Console : l.kind = "summary"}

\* C12 (as claimed): once the final group is complete the run has emitted a
\* summary whose attempted count is the number of discovered archives and
\* whose succeeded and failed counts add up to it (all zero for no archive).
C12_RunSummary ==
  pc = "done" =>
    \E s \in Summaries :
      /\ s.attempted = Len(dir)
      /\ s.succeeded + s.failed = s.attempted

\* C13: a run that discovers no archive processes no group: it emits no
\* progress notification, opens nothing, prints and writes nothing, and ends
\* normally with the progress indicator stopped.
C13_EmptyInput ==
  (Started /\ Len(dir) = 0) =>
    /\ alive
    /\ pc \in {"glob", "done"}
    /\ pc = "done" <=> spinner = "stopped"
    /\ Quiescent => pc = "done"
    /\ progress = <<>>
    /\ chunk = 0
    /\ Console = {}
    /\ \A f \in DOMAIN files : files[f] = NoFile

\* C13 witness: the run over an empty directory has ended.
C13_Witness == Len(dir) = 0 /\ pc = "done" /\ spinner = "stopped"

\* The file of archive p as the input alone determines it: the name, the
\* metadata the archive carries, the reading order and the chapter texts.
ExpectedFile(p) ==
  [g \in {"filename", "chapterIds", "chapters"} \cup dir[p].meta |->
     CASE g = "filename" -> Basename(p)
       [] g = "chapterIds" -> dir[p].flow
       [] g = "chapters" ->
            [id \in {dir[p].flow[i] : i \in DOMAIN dir[p].flow} |-> Text(p, id)]
       [] OTHER -> MetaValue(g)]

\* C14: in a run in which every operation succeeds, the output files left at
\* the end are a function of the input directory alone: whatever the order
\* of the open, chapter and write completions, each archive's file has the
\* same content, so two runs on the same input leave identical files.
C14_Determinism ==
  (Quiescent /\ Started /\ \A p \in Paths : Valid(p) /\ dir[p].writeOk) =>
    \A p \in Paths : files[OutputFile(p)] = ExpectedFile(p)

\* C14 witness: a finished run over several archives, one of several
\* chapters, whose completions could interleave in many ways.
C14_Witness ==
  /\ Quiescent
  /\ Len(dir) >= 2
  /\ \A p \in Paths : OutputExists(p)
  /\ \E p \in Paths : Len(dir[p].flow) >= 2

\* the groups of loop indices 0 .. k-1, concatenated in order
RECURSIVE Concat(_)
Concat(k) == IF k = 0 THEN <<>> ELSE Concat(k - 1) \o PathsSlice(k - 1)

Elements(s) == {s[i] : i \in DOMAIN s}

\* The groups are contiguous slices of at most chunkSize paths whose
\* concatenation is the discovered list, all but the last are full, none is
\* empty, and the paths handled after k iterations are the first k groups.
Partitioned ==
  LET k == chunks(Len(dir))
  IN  /\ Concat(k) = paths
      /\ \A c \in 0..(k - 1) :
           /\ Len(PathsSlice(c)) \in 1..chunkSize
           /\ c < k - 1 => Len(PathsSlice(c)) = chunkSize
           /\ Elements(PathsSlice(c)) = Slice(c, Len(dir))
      /\ {p \in Paths : st[p] # "unopened"} = Elements(Concat(chunk))

\* C15 as stated: the list is partitioned as above, and a discovered count
\* of at most chunkSize gives a single group.
C15_Original ==
  Partitioned /\ (Len(dir) <= chunkSize => chunks(Len(dir)) = 1)

\* C15, amended: the list is partitioned as above; a discovered count from 1
\* to chunkSize gives a single group, and a count of zero gives no group.
C15_Partitioning ==
  /\ Partitioned
  /\ Len(dir) \in 1..chunkSize => chunks(Len(dir)) = 1
  /\ Len(dir) = 0 => chunks(Len(dir)) = 0

\* C15 witness: the loop has gone through a list of more than two full
\* groups that does not end on a group boundary.
C15_Witness ==
  /\ Len(dir) > 2 * chunkSize
  /\ Len(dir) % chunkSize # 0
  /\ chunk = chunks(Len(dir))
  /\ \A p \in Paths : st[p] = "resolved"

\* C16 as stated: at the end of a run, every archive whose assembly
\* succeeded has its output file written (its write permitting), although
\* the assembly of another archive of the same group failed.
C16_SiblingIsolation ==
  Quiescent =>
    \A p \in Paths : \A q \in Paths :
      (/\ Group(p) = Group(q)
       /\ st[p] = "rejected"
       /\ st[q] = "resolved"
       /\ dir[q].writeOk) => OutputExists(q)

\* the writes started so far that target file f
Writers(f) == {p \in Paths : OutputFile(p) = f /\ wr[p] # "none"}

C17_Distinct ==
  /\ \A p \in Paths : \A q \in Paths : p # q => OutputFile(p) # OutputFile(q)
  /\ \A f \in DOMAIN files : Cardinality(Writers(f)) <= 1

\* a write is started at most once per path: once started it only completes
C17_Step ==
  \A p \in Paths :
    /\ wr[p] = "pending" => wr'[p] \in {"pending", "ok", "fail"}
    /\ wr[p] \in {"ok", "fail"} => wr'[p] = wr[p]

C18_WriteNotices ==
  \A p \in Paths :
    /\ wr[p] = "ok" => notice[p] = {"Output"}
    /\ wr[p] = "fail" => notice[p] = {"Unable"}
    /\ wr[p] \in {"none", "pending"} => notice[p] = {}

\* C19 as stated: the Book an assembly produces has each of the six metadata
\* fields, with the archive's value when the archive carries the field and
\* with the empty string when it does not; an archive that opens and whose
\* chapters can all be read is assembled whatever fields it lacks.
C19_MissingMetadata ==
  \A p \in Paths :
    /\ st[p] = "resolved" =>
         \A f \in Fields :
           book[p][f] = IF f \in dir[p].meta THEN MetaValue(f) ELSE ""
    /\ (Quiescent /\ alive /\ Valid(p) /\ st[p] # "unopened") => st[p] = "resolved"

\* every assembly of group N has settled, fulfilled or rejected
Completed(N) == \A p \in GroupPaths(N) : AssemblySettled(p)

\* C20 as stated: the notifications carry the group indices in increasing
\* order, a group is notified only once all its assemblies have settled, an
\* archive of the next group is opened only after the notification, and at
\* the end of the run there are as many notifications as completed groups.
C20_Progress ==
  /\ \A i \in DOMAIN progress : progress[i] = i - 1
  /\ \A N \in 0..LastGroup : Notified(N) => Completed(N)
  /\ \A p \in Paths :
       (Group(p) > 0 /\ st[p] # "unopened") => Notified(Group(p) - 1)
  /\ Quiescent =>
       Len(progress) = Cardinality({N \in 0..LastGroup : Completed(N)})

====
